---- MODULE Spec2Model ----
(***************************************************************************)
(* Model of the catalog ingestion script populate-db.js:                   *)
(*   fetchAllScrydexCards  - paginated fetch of the remote catalog         *)
(*   insertCardToSupabase  - the writes of one card to the target store    *)
(*   populateDatabase      - the run controller, its counters and summary  *)
(* One action per position of the script between two awaits.  The remote   *)
(* catalog API and the target store are the environment: the bodies the    *)
(* remote answers with, HTTP/transport failures and store write failures   *)
(* are chosen nondeterministically.                                        *)
(***************************************************************************)
EXTENDS Integers, Sequences, FiniteSets, TLC

(* ------------------------------ bounds --------------------------------- *)

\* The page size of the request URL and of the last-page test
\* (pageSize=250 and cards.length < 250), scaled down.
PageSize == 2

\* The pacing period of the controller (i % 50), scaled down.
PaceEvery == 2

\* Number of records the remote catalog holds at most.
MaxCatalog == 3

\* Page requests of one run are capped (the page counter is unbounded).
MaxPages == 2

\* Runs of the script against the same target store.
MaxRuns == 2

\* Failures the environment injects (HTTP/transport failure of a page
\* request, write failure reported by the store) over all runs.
MaxFaults == 1

\* Variants of a card of the detailed catalogs.
MaxVariants == 2

\* Calls of capturePhoto, and of getUserMedia, in a visit of the view.
MaxCaptures == 2
MaxStarts == 2

(* ------------------------- JavaScript values --------------------------- *)

\* A price value is a number; Null stands for a JSON null or a missing field.
Null == -1

\* A card object without an `id` field.
NoId == 0

\* JavaScript truthiness of a price value: null, undefined and 0 are falsy.
Truthy(v) == v # Null /\ v # 0

\* `v || null`
OrNull(v) == IF Truthy(v) THEN v ELSE Null

(* ---------------------------- raw records ------------------------------ *)

\* A price snapshot of a variant; json = "null" is a JSON null in its place.
Snapshot(l, m) ==
    [json |-> "object", low |-> l, mid |-> Null, high |-> Null, market |-> m]

NullSnapshot ==
    [json |-> "null", low |-> Null, mid |-> Null, high |-> Null, market |-> Null]

\* The `variants` field: missing, a JSON object instead of a list, or a list
\* of variants, each with a list `prices`.
NoVariants == [json |-> "missing", list |-> <<>>]

ObjectVariants == [json |-> "object", list |-> <<>>]

Variants(l) == [json |-> "list", list |-> l]

\* The `expansion` field: missing, or the embedded set object.
NoExpansion == [json |-> "missing", id |-> 0, name |-> ""]

Expansion(sid) == [json |-> "object", id |-> sid, name |-> "set"]

\* The same set under another name.
RenamedExpansion(sid) == [json |-> "object", id |-> sid, name |-> "reprint"]

\* The records of the catalog: a JSON null, or a card object.
Card(cid, exp, vars, atk, abl) ==
    [json |-> "object", id |-> cid, name |-> "card", expansion |-> exp,
     variants |-> vars, attacks |-> atk, abilities |-> abl]

NullCard ==
    [json |-> "null", id |-> NoId, name |-> "", expansion |-> NoExpansion,
     variants |-> NoVariants, attacks |-> <<>>, abilities |-> <<>>]

\* The response body itself, when the fetcher takes it for a record.
BodyObj == Card(NoId, NoExpansion, NoVariants, <<>>, <<>>)

BareCard(cid) == Card(cid, NoExpansion, NoVariants, <<>>, <<>>)

FullCard(cid) ==
    Card(cid, Expansion(1),
         Variants(<< [prices |-> << Snapshot(Null, Null) >>],
                     [prices |-> << Snapshot(Null, 5) >>] >>),
         << [name |-> "atk"] >>,
         << [name |-> "abl", type |-> ""] >>)

\* `variants` is an object, not a list.
OddCard(cid) == Card(cid, RenamedExpansion(1), ObjectVariants, <<>>, <<>>)

\* The first price list holds a JSON null.
HoleCard(cid) ==
    Card(cid, NoExpansion, Variants(<< [prices |-> << NullSnapshot >>] >>),
         <<>>, <<>>)

\* The records the catalog is made of: two card ids, so that a card can
\* repeat the id of another one.
RawCards ==
    {NullCard, BareCard(1), FullCard(2), OddCard(1)}

\* Lists of at most n elements of S.
SeqsUpTo(S, n) == UNION {[1..k -> S] : k \in 0..n}

\* The cards of the detailed catalogs: every combination of a few price
\* lists, attacks and abilities.
PriceLists ==
    { <<>>,
      << Snapshot(Null, Null) >>,
      << Snapshot(Null, 0) >>,
      << Snapshot(3, 5) >>,
      << Snapshot(Null, Null), Snapshot(Null, 5) >> }

AttackLists == { <<>>, << [name |-> "atk"] >> }

AbilityLists ==
    { <<>>,
      << [name |-> "abl", type |-> ""] >>,
      << [name |-> "abl", type |-> "Ability"], [name |-> "abl", type |-> ""] >> }

DetailedCards ==
    { Card(1, NoExpansion, Variants(vs), atk, abl) :
        vs \in SeqsUpTo({[prices |-> ps] : ps \in PriceLists}, MaxVariants),
        atk \in AttackLists,
        abl \in AbilityLists }

(* ------------------------------ state ---------------------------------- *)

VARIABLES
    pc,            \* position of the script
    run,           \* number of the current run
    faults,        \* failures injected so far
    remote,        \* the pages of the remote catalog served so far
    page,          \* fetchAllScrydexCards: page
    hasMorePages,  \* fetchAllScrydexCards: hasMorePages
    allCards,      \* fetchAllScrydexCards: allCards; populateDatabase: cards
    data,          \* fetchAllScrydexCards: the envelope of the body just read
    i,             \* populateDatabase: loop index
    successCount,
    errorCount,
    setsFound,
    pricesFound,
    sets,          \* target store: table sets
    cardinfo,      \* target store: table cardinfo
    tcgplayer,     \* target store: pricing table
    attacks,       \* target store: table attacks (attacks and abilities)
    log,           \* console lines of the run
    trace,         \* requests, delays, store calls and pauses of the run
    exitCode,      \* exit status of the process, NoExit while it runs
    report,        \* the import summary, NoReport until it is printed
    before,        \* the target store as the run found it
    exits          \* exit statuses of the earlier runs

\* The state of the view Testview.vue.
VARIABLES
    mounted,       \* the component is mounted
    loggedIn,
    loginError,    \* a login error is shown
    currentPage,   \* "camera" or "scans"
    cameraActive,
    stream,        \* let stream: the stream acquired last, NoStream if none
    srcObject,     \* videoRef.value.srcObject, NoStream if none
    live,          \* the acquired streams whose tracks have not been stopped
    acquired,      \* number of streams acquired so far
    pending,       \* number of getUserMedia calls not yet answered
    isLoading,
    scanError,     \* a scan error is shown
    message,
    scans,
    stored,        \* localStorage item 'scans'
    requests,      \* the calls of capturePhoto that await an answer
    calls          \* number of calls of capturePhoto so far

importVars == <<pc, run, faults, remote, page, hasMorePages, allCards, data, i,
                successCount, errorCount, setsFound, pricesFound,
                sets, cardinfo, tcgplayer, attacks, log, trace, exitCode,
                report, before, exits>>

viewVars == <<mounted, loggedIn, loginError, currentPage, cameraActive,
              stream, srcObject, live, acquired, pending, isLoading,
              scanError, message, scans, stored, requests, calls>>

vars == <<importVars, viewVars>>

fetchVars == <<page, hasMorePages, allCards, data>>
countVars == <<successCount, errorCount, setsFound, pricesFound>>
storeVars == <<sets, cardinfo, tcgplayer, attacks>>
runVars == <<run, before, exits>>

NoExit == -1

NoReport ==
    [total |-> -1, success |-> -1, failed |-> -1, uniqueSets |-> -1,
     priced |-> -1]

Line(k, a, b) == [kind |-> k, id |-> a, name |-> b]
Event(e, n, o) == [ev |-> e, n |-> n, ok |-> o]

\* A record list of a response body, or its absence.
List(l) == [present |-> TRUE, list |-> l]
NoList == [present |-> FALSE, list |-> <<>>]

\* The remote catalog: its pages are either still to be served, drawn from
\* RawCards, or it is one page with one detailed card or one card with a
\* null snapshot.
Catalogs ==
    {<<>>} \cup {<< List(<<c>>) >> : c \in DetailedCards \cup {HoleCard(2)}}

\* The script before its first step, for a remote catalog.
ImportStart(catalog) ==
    /\ pc = "fetch"
    /\ run = 1
    /\ faults = 0
    /\ remote = catalog
    /\ page = 1
    /\ hasMorePages = TRUE
    /\ allCards = <<>>
    /\ data = "none"
    /\ i = 0
    /\ successCount = 0
    /\ errorCount = 0
    /\ setsFound = {}
    /\ pricesFound = 0
    /\ sets = {}
    /\ cardinfo = {}
    /\ tcgplayer = <<>>
    /\ attacks = <<>>
    /\ log = <<>>
    /\ trace = <<>>
    /\ exitCode = NoExit
    /\ report = NoReport
    /\ before = [sets |-> {}, cardinfo |-> {}, tcgplayer |-> <<>>,
                 attacks |-> <<>>]
    /\ exits = <<>>

\* No stream, and the streams are numbered from 1.
NoStream == 0

\* The localStorage item 'scans': absent, or the list it was set to.
NoItem == [present |-> FALSE, list |-> <<>>]
Item(l) == [present |-> TRUE, list |-> l]

\* An entry of the scans list.
Scan(img, nm, conf, cid) ==
    [image |-> img, cardName |-> nm, confidence |-> conf, cardId |-> cid]

\* An entry stored by an earlier visit.
OldScan == Scan(0, "Pikachu", 9, 7)

\* Testview.vue after setup, for a content of localStorage (the view does
\* not read the stored scans when it is mounted).
ViewSetup(item) ==
    /\ mounted = TRUE
    /\ loggedIn = FALSE
    /\ loginError = FALSE
    /\ currentPage = "camera"
    /\ cameraActive = FALSE
    /\ stream = NoStream
    /\ srcObject = NoStream
    /\ live = {}
    /\ acquired = 0
    /\ pending = 0
    /\ isLoading = FALSE
    /\ scanError = FALSE
    /\ message = "Welcome!"
    /\ scans = <<>>
    /\ stored = item
    /\ requests = {}
    /\ calls = 0

Init ==
    /\ \E catalog \in Catalogs : ImportStart(catalog)
    /\ ViewSetup(NoItem)

(* ------------------------- fetchAllScrydexCards ------------------------ *)

\* The three envelopes of a record list, and a body object without one.
DataBody(l) == [root |-> NoList, data |-> List(l), cards |-> NoList]
CardsBody(l) == [root |-> NoList, data |-> NoList, cards |-> List(l)]
RootBody(l) == [root |-> List(l), data |-> NoList, cards |-> NoList]
BareBody == [root |-> NoList, data |-> NoList, cards |-> NoList]

\* Where a body carries its record list.
EnvelopeOf(body) ==
    IF body.data.present THEN "data"
    ELSE IF body.cards.present THEN "cards"
    ELSE IF body.root.present THEN "root" ELSE "bare"

BodiesOf(r) ==
    IF r.present THEN {DataBody(r.list), CardsBody(r.list), RootBody(r.list)}
    ELSE {BareBody}

\* ExtractCards without the cards field: data.data || data
ExtractCardsDataOnly(body) ==
    IF body.data.present THEN body.data ELSE body.root

\* const cards = data.data || data.cards || data
\* (a list is truthy even when empty; the result is a list, or the body
\* object itself, which has no length)
ExtractCards(body) ==
    IF body.data.present THEN body.data
    ELSE IF body.cards.present THEN body.cards
    ELSE body.root

\* !cards || cards.length === 0
IsEmptyPage(cards) == cards.present /\ Len(cards.list) = 0

\* IsLastPage with the comparison off by one: a full page ends the loop.
IsLastPageInclusive(cards) == cards.present /\ Len(cards.list) <= PageSize

\* cards.length < 250
IsLastPage(cards) == cards.present /\ Len(cards.list) < PageSize

\* Concat with the operands swapped: the new page is put in front.
ConcatInFront(all, cards) ==
    IF cards.present THEN cards.list \o all ELSE <<BodyObj>> \o all

\* allCards.concat(cards): a list is spliced, any other value is appended
Concat(all, cards) ==
    IF cards.present THEN all \o cards.list ELSE Append(all, BodyObj)

RECURSIVE Served(_)
Served(r) == IF r = <<>> THEN 0 ELSE Len(Head(r).list) + Served(Tail(r))

\* What the remote can answer for page p: the page it served before, or a
\* page it has not served yet (the catalog is finite).
PagesAt(p) ==
    IF p <= Len(remote) THEN {remote[p]}
    ELSE {NoList} \cup
         {List(l) : l \in SeqsUpTo(RawCards,
             IF MaxCatalog - Served(remote) < PageSize
             THEN MaxCatalog - Served(remote) ELSE PageSize)}

\* while (hasMorePages) { ... await fetch(page) }
FetchRequest ==
    /\ pc = "fetch"
    /\ hasMorePages
    /\ page <= MaxPages
    /\ pc' = "awaitFetch"
    /\ trace' = Append(trace, Event("request", page, TRUE))
    /\ UNCHANGED viewVars
    /\ UNCHANGED <<runVars, report, faults, remote, fetchVars, i, countVars, storeVars,
                   log, exitCode>>

\* FetchFail with the error logged and swallowed: the pages fetched so far
\* are returned.
FetchFailSwallowed ==
    /\ pc = "awaitFetch"
    /\ faults < MaxFaults
    /\ faults' = faults + 1
    /\ log' = Append(log, Line("fetchError", 0, ""))
    /\ hasMorePages' = FALSE
    /\ pc' = "fetch"
    /\ UNCHANGED viewVars
    /\ UNCHANGED <<runVars, report, remote, page, allCards, data, i,
                   countVars, storeVars, trace, exitCode>>

\* fetch rejects, or !response.ok: throw, logged and rethrown by the catch
\* of fetchAllScrydexCards, then caught by populateDatabase: process.exit(1)
FetchFail ==
    /\ pc = "awaitFetch"
    /\ faults < MaxFaults
    /\ faults' = faults + 1
    /\ log' = log \o << Line("fetchError", 0, ""), Line("fatal", 0, "") >>
    /\ exitCode' = 1
    /\ pc' = "aborted"
    /\ UNCHANGED viewVars
    /\ UNCHANGED <<runVars, report, remote, fetchVars, i, countVars, storeVars, trace>>

\* FetchPage without the delay: the next page is requested at once.
FetchPageNoDelay ==
    /\ pc = "awaitFetch"
    /\ \E r \in PagesAt(page) : \E body \in BodiesOf(r) :
         LET cards == ExtractCards(body) IN
         /\ data' = EnvelopeOf(body)
         /\ remote' = IF page <= Len(remote) THEN remote
                      ELSE Append(remote, r)
         /\ IF IsEmptyPage(cards)
            THEN /\ hasMorePages' = FALSE
                 /\ pc' = "fetch"
                 /\ UNCHANGED <<allCards, page>>
            ELSE /\ allCards' = Concat(allCards, cards)
                 /\ IF IsLastPage(cards)
                    THEN /\ hasMorePages' = FALSE
                         /\ pc' = "fetch"
                         /\ UNCHANGED page
                    ELSE /\ page' = page + 1
                         /\ pc' = "fetch"
                         /\ UNCHANGED hasMorePages
    /\ UNCHANGED viewVars
    /\ UNCHANGED <<runVars, report, faults, i, countVars, storeVars, log,
                   trace, exitCode>>

\* response.ok: the body is read and the page is taken
FetchPage ==
    /\ pc = "awaitFetch"
    /\ \E r \in PagesAt(page) : \E body \in BodiesOf(r) :
         LET cards == ExtractCards(body) IN
         /\ data' = EnvelopeOf(body)
         /\ remote' = IF page <= Len(remote) THEN remote
                      ELSE Append(remote, r)
         /\ IF IsEmptyPage(cards)
            THEN /\ hasMorePages' = FALSE
                 /\ pc' = "fetch"
                 /\ UNCHANGED <<allCards, page>>
            ELSE /\ allCards' = Concat(allCards, cards)
                 /\ IF IsLastPage(cards)
                    THEN /\ hasMorePages' = FALSE
                         /\ pc' = "fetch"
                         /\ UNCHANGED page
                    ELSE /\ page' = page + 1
                         /\ pc' = "delay"
                         /\ UNCHANGED hasMorePages
    /\ UNCHANGED viewVars
    /\ UNCHANGED <<runVars, report, faults, i, countVars, storeVars, log,
                   trace, exitCode>>

\* await new Promise(resolve => setTimeout(resolve, 500))
FetchDelay ==
    /\ pc = "delay"
    /\ pc' = "fetch"
    /\ data' = "none"
    /\ trace' = Append(trace, Event("delay", page, TRUE))
    /\ UNCHANGED viewVars
    /\ UNCHANGED <<runVars, report, faults, remote, page, hasMorePages,
                   allCards, i, countVars, storeVars, log, exitCode>>

\* the while loop ends: return allCards
FetchReturn ==
    /\ pc = "fetch"
    /\ ~hasMorePages
    /\ pc' = "fetched"
    /\ data' = "none"
    /\ UNCHANGED viewVars
    /\ UNCHANGED <<runVars, report, faults, remote, page, hasMorePages,
                   allCards, i, countVars, storeVars, log, trace, exitCode>>


(* ------------------------- insertCardToSupabase ------------------------ *)

\* const card = cards[i]
card == allCards[i + 1]

\* if (card.expansion)
HasExpansion(c) == c.expansion.json = "object"

SetRow(c) == [id |-> c.expansion.id, name |-> c.expansion.name]

\* Upsert as a plain insert: the row is added whatever the table holds.
UpsertAsInsert(table, row) == table \cup {row}

\* .upsert(row, { onConflict: 'id' }): insert, or update the row of that id
Upsert(table, row) == {r \in table : r.id # row.id} \cup {row}

\* set_id: card.expansion?.id || null
CardRow(c) ==
    [id |-> c.id, card_name |-> c.name,
     set_id |-> IF HasExpansion(c) /\ c.expansion.id # 0
                THEN c.expansion.id ELSE Null]

\* CardConflict without the uniqueness of the primary key.
CardConflictNoKey(table, c) == c.id = NoId

\* The store rejects an insert into cardinfo without a primary key or with
\* the primary key of an existing row.
CardConflict(table, c) == c.id = NoId \/ \E r \in table : r.id = c.id

\* latestPrice.low || latestPrice.mid || latestPrice.high || latestPrice.market
HasPriceValue(p) ==
    Truthy(p.low) \/ Truthy(p.mid) \/ Truthy(p.high) \/ Truthy(p.market)

\* for (const variant of card.variants): the first variant with a price
\* list is read at its first snapshot; reading a field of a JSON null throws
RECURSIVE ScanVariants(_)
ScanVariants(vs) ==
    IF vs = <<>> THEN [res |-> "none", price |-> NullSnapshot]
    ELSE IF Len(Head(vs).prices) > 0
         THEN LET latestPrice == Head(vs).prices[1] IN
              IF latestPrice.json = "null"
              THEN [res |-> "throw", price |-> NullSnapshot]
              ELSE IF HasPriceValue(latestPrice)
                   THEN [res |-> "insert", price |-> latestPrice]
                   ELSE ScanVariants(Tail(vs))
         ELSE ScanVariants(Tail(vs))

\* if (card.variants && card.variants.length > 0)
SelectPrice(c) ==
    IF c.variants.json = "list" /\ Len(c.variants.list) > 0
    THEN ScanVariants(c.variants.list)
    ELSE [res |-> "none", price |-> NullSnapshot]

PriceRow(c, p) ==
    [card_id |-> c.id, price_low |-> OrNull(p.low), price_mid |-> OrNull(p.mid),
     price_high |-> OrNull(p.high), price_market |-> OrNull(p.market)]

AttackRows(c) ==
    [k \in 1..Len(c.attacks) |->
        [card_id |-> c.id, name |-> c.attacks[k].name, type |-> <<"attack">>]]

\* type: ['ability', a.type || 'Pokemon Power']
AbilityRows(c) ==
    [k \in 1..Len(c.abilities) |->
        [card_id |-> c.id, name |-> c.abilities[k].name,
         type |-> <<"ability", IF c.abilities[k].type # ""
                               THEN c.abilities[k].type
                               ELSE "Pokemon Power">>]]

\* insertCardToSupabase(card) is entered: reading card.expansion of a JSON
\* null throws
PersistBegin ==
    /\ pc = "persist"
    /\ pc' = IF card.json = "null" THEN "caught"
             ELSE IF HasExpansion(card) THEN "upsertSet" ELSE "insertCard"
    /\ UNCHANGED viewVars
    /\ UNCHANGED <<runVars, report, faults, remote, fetchVars, i, countVars, storeVars,
                   log, trace, exitCode>>

\* 1. await supabase.from('sets').upsert(...); an error is logged unless its
\* message contains 'duplicate', and the function goes on
UpsertSet ==
    /\ pc = "upsertSet"
    /\ \/ /\ sets' = Upsert(sets, SetRow(card))
          /\ trace' = Append(trace, Event("sets", i, TRUE))
          /\ UNCHANGED <<faults, log>>
       \/ /\ faults < MaxFaults
          /\ faults' = faults + 1
          /\ trace' = Append(trace, Event("sets", i, FALSE))
          /\ \/ log' = Append(log, Line("setError", card.id, card.name))
             \/ UNCHANGED log
          /\ UNCHANGED sets
    /\ pc' = "insertCard"
    /\ UNCHANGED viewVars
    /\ UNCHANGED <<runVars, report, remote, fetchVars, i, countVars, cardinfo, tcgplayer,
                   attacks, exitCode>>

\* InsertCard without the throw on cardError: the function goes on to the
\* child writes.
InsertCardNoThrow ==
    /\ pc = "insertCard"
    /\ \/ /\ ~CardConflict(cardinfo, card)
          /\ cardinfo' = cardinfo \cup {CardRow(card)}
          /\ trace' = Append(trace, Event("cardinfo", i, TRUE))
          /\ UNCHANGED faults
       \/ /\ CardConflict(cardinfo, card)
          /\ trace' = Append(trace, Event("cardinfo", i, FALSE))
          /\ UNCHANGED <<faults, cardinfo>>
       \/ /\ faults < MaxFaults
          /\ faults' = faults + 1
          /\ trace' = Append(trace, Event("cardinfo", i, FALSE))
          /\ UNCHANGED cardinfo
    /\ pc' = "price"
    /\ UNCHANGED viewVars
    /\ UNCHANGED <<runVars, report, remote, fetchVars, i, countVars, sets, tcgplayer,
                   attacks, log, exitCode>>

\* 4. await supabase.from('cardinfo').insert(...); if (cardError) throw
InsertCard ==
    /\ pc = "insertCard"
    /\ \/ /\ ~CardConflict(cardinfo, card)
          /\ cardinfo' = cardinfo \cup {CardRow(card)}
          /\ trace' = Append(trace, Event("cardinfo", i, TRUE))
          /\ pc' = "price"
          /\ UNCHANGED faults
       \/ /\ CardConflict(cardinfo, card)
          /\ trace' = Append(trace, Event("cardinfo", i, FALSE))
          /\ pc' = "caught"
          /\ UNCHANGED <<faults, cardinfo>>
       \/ /\ faults < MaxFaults
          /\ faults' = faults + 1
          /\ trace' = Append(trace, Event("cardinfo", i, FALSE))
          /\ pc' = "caught"
          /\ UNCHANGED cardinfo
    /\ UNCHANGED viewVars
    /\ UNCHANGED <<runVars, report, remote, fetchVars, i, countVars, sets, tcgplayer,
                   attacks, log, exitCode>>

\* 5. the price of the first variant that has one is inserted; the result of
\* the insert is not read
InsertPrice ==
    /\ pc = "price"
    /\ LET sel == SelectPrice(card) IN
       \/ /\ sel.res = "none"
          /\ pc' = "attacks"
          /\ UNCHANGED <<faults, tcgplayer, trace>>
       \/ /\ sel.res = "throw"
          /\ pc' = "caught"
          /\ UNCHANGED <<faults, tcgplayer, trace>>
       \/ /\ sel.res = "insert"
          /\ tcgplayer' = Append(tcgplayer, PriceRow(card, sel.price))
          /\ trace' = Append(trace, Event("tcgplayer", i, TRUE))
          /\ pc' = "attacks"
          /\ UNCHANGED faults
       \/ /\ sel.res = "insert"
          /\ faults < MaxFaults
          /\ faults' = faults + 1
          /\ trace' = Append(trace, Event("tcgplayer", i, FALSE))
          /\ pc' = "attacks"
          /\ UNCHANGED tcgplayer
    /\ UNCHANGED viewVars
    /\ UNCHANGED <<runVars, report, remote, fetchVars, i, countVars, sets, cardinfo,
                   attacks, log, exitCode>>

\* 6. await supabase.from('attacks').insert(attacks), result not read
InsertAttacks ==
    /\ pc = "attacks"
    /\ \/ /\ Len(card.attacks) = 0
          /\ UNCHANGED <<faults, attacks, trace>>
       \/ /\ Len(card.attacks) > 0
          /\ attacks' = attacks \o AttackRows(card)
          /\ trace' = Append(trace, Event("attacks", i, TRUE))
          /\ UNCHANGED faults
       \/ /\ Len(card.attacks) > 0
          /\ faults < MaxFaults
          /\ faults' = faults + 1
          /\ trace' = Append(trace, Event("attacks", i, FALSE))
          /\ UNCHANGED attacks
    /\ pc' = "abilities"
    /\ UNCHANGED viewVars
    /\ UNCHANGED <<runVars, report, remote, fetchVars, i, countVars, sets, cardinfo,
                   tcgplayer, log, exitCode>>

\* 7. await supabase.from('attacks').insert(abilities), result not read;
\* return insertedCard
InsertAbilities ==
    /\ pc = "abilities"
    /\ \/ /\ Len(card.abilities) = 0
          /\ UNCHANGED <<faults, attacks, trace>>
       \/ /\ Len(card.abilities) > 0
          /\ attacks' = attacks \o AbilityRows(card)
          /\ trace' = Append(trace, Event("abilities", i, TRUE))
          /\ UNCHANGED faults
       \/ /\ Len(card.abilities) > 0
          /\ faults < MaxFaults
          /\ faults' = faults + 1
          /\ trace' = Append(trace, Event("abilities", i, FALSE))
          /\ UNCHANGED attacks
    /\ pc' = "returned"
    /\ UNCHANGED viewVars
    /\ UNCHANGED <<runVars, report, remote, fetchVars, i, countVars, sets, cardinfo,
                   tcgplayer, log, exitCode>>


(* --------------------------- populateDatabase -------------------------- *)

\* card.variants?.some(v => v.prices?.length > 0), for a list
SomeVariantHasPrices(c) ==
    \E k \in 1..Len(c.variants.list) : Len(c.variants.list[k].prices) > 0

Summary ==
    [total |-> Len(allCards), success |-> successCount, failed |-> errorCount,
     uniqueSets |-> Cardinality(setsFound), priced |-> pricesFound]

\* if (!cards || cards.length === 0) { ...; return }
CheckCards ==
    /\ pc = "fetched"
    /\ IF Len(allCards) = 0
       THEN /\ log' = Append(log, Line("noCards", 0, ""))
            /\ pc' = "done"
            /\ exitCode' = 0
       ELSE /\ pc' = "loop"
            /\ UNCHANGED <<log, exitCode>>
    /\ UNCHANGED viewVars
    /\ UNCHANGED <<runVars, report, faults, remote, fetchVars, i, countVars, storeVars,
                   trace>>

\* for (let i = 0; i < cards.length; i++)
LoopNext ==
    /\ pc = "loop"
    /\ i < Len(allCards)
    /\ pc' = "persist"
    /\ UNCHANGED viewVars
    /\ UNCHANGED <<runVars, report, faults, remote, fetchVars, i, countVars, storeVars,
                   log, trace, exitCode>>

\* the loop ends: the summary is printed and the script returns
LoopEnd ==
    /\ pc = "loop"
    /\ i >= Len(allCards)
    /\ log' = Append(log, Line("summary", 0, ""))
    /\ report' = Summary
    /\ pc' = "done"
    /\ exitCode' = 0
    /\ UNCHANGED viewVars
    /\ UNCHANGED <<runVars, faults, remote, fetchVars, i, countVars, storeVars,
                   trace>>

\* await insertCardToSupabase(card) returned: successCount++, the set id and
\* the price flag are recorded and the card is logged; calling .some on a
\* value that is not a list throws into the catch of the iteration
Returned ==
    /\ pc = "returned"
    /\ successCount' = successCount + 1
    /\ setsFound' = IF HasExpansion(card) /\ card.expansion.id # 0
                    THEN setsFound \cup {card.expansion.id} ELSE setsFound
    /\ IF card.variants.json = "object"
       THEN /\ pc' = "caught"
            /\ UNCHANGED <<pricesFound, log>>
       ELSE /\ pricesFound' = IF /\ card.variants.json = "list"
                                 /\ SomeVariantHasPrices(card)
                              THEN pricesFound + 1 ELSE pricesFound
            /\ log' = Append(log, Line("cardOk", card.id, card.name))
            /\ pc' = "pace"
    /\ UNCHANGED viewVars
    /\ UNCHANGED <<runVars, report, faults, remote, fetchVars, i, errorCount, storeVars,
                   trace, exitCode>>

\* Caught without the per-card catch: the error reaches the catch of
\* populateDatabase.
CaughtFatal ==
    /\ pc = "caught"
    /\ log' = Append(log, Line("fatal", 0, ""))
    /\ exitCode' = 1
    /\ pc' = "aborted"
    /\ UNCHANGED viewVars
    /\ UNCHANGED <<runVars, report, faults, remote, fetchVars, i, countVars,
                   storeVars, trace>>

\* catch (error) { errorCount++; console.error(... card.id ... card.name) }:
\* reading card.id of a JSON null throws out of the catch block into the
\* catch of populateDatabase: process.exit(1)
Caught ==
    /\ pc = "caught"
    /\ errorCount' = errorCount + 1
    /\ IF card.json = "null"
       THEN /\ log' = Append(log, Line("fatal", 0, ""))
            /\ exitCode' = 1
            /\ pc' = "aborted"
       ELSE /\ log' = Append(log, Line("cardFail", card.id, card.name))
            /\ pc' = "pace"
            /\ UNCHANGED exitCode
    /\ UNCHANGED viewVars
    /\ UNCHANGED <<runVars, report, faults, remote, fetchVars, i, successCount, setsFound,
                   pricesFound, storeVars, trace>>

\* PauseDue on the number of cards processed: (i + 1) % 50 === 0
PauseDueByCount(n) == (n + 1) % PaceEvery = 0

\* if (i % 50 === 0 && i > 0)
PauseDue(n) == n % PaceEvery = 0 /\ n > 0

\* Pace without the increment of the loop: the card is taken again.
PaceRepeat ==
    /\ pc = "pace"
    /\ IF PauseDue(i)
       THEN /\ pc' = "pausing"
            /\ UNCHANGED i
       ELSE /\ pc' = "loop"
            /\ UNCHANGED i
    /\ UNCHANGED viewVars
    /\ UNCHANGED <<runVars, report, faults, remote, fetchVars, countVars, storeVars,
                   log, trace, exitCode>>

\* the iteration ends: the pause is taken if due, and i++
Pace ==
    /\ pc = "pace"
    /\ IF PauseDue(i)
       THEN /\ pc' = "pausing"
            /\ UNCHANGED i
       ELSE /\ pc' = "loop"
            /\ i' = i + 1
    /\ UNCHANGED viewVars
    /\ UNCHANGED <<runVars, report, faults, remote, fetchVars, countVars, storeVars,
                   log, trace, exitCode>>

\* await new Promise(resolve => setTimeout(resolve, 1000))
Pause ==
    /\ pc = "pausing"
    /\ trace' = Append(trace, Event("pause", i, TRUE))
    /\ pc' = "loop"
    /\ i' = i + 1
    /\ UNCHANGED viewVars
    /\ UNCHANGED <<runVars, report, faults, remote, fetchVars, countVars, storeVars,
                   log, exitCode>>

\* populateDatabase() is run again, on the store the earlier runs left
Rerun ==
    /\ pc \in {"done", "aborted"}
    /\ run < MaxRuns
    /\ run' = run + 1
    /\ pc' = "fetch"
    /\ page' = 1
    /\ hasMorePages' = TRUE
    /\ allCards' = <<>>
    /\ data' = "none"
    /\ i' = 0
    /\ successCount' = 0
    /\ errorCount' = 0
    /\ setsFound' = {}
    /\ pricesFound' = 0
    /\ log' = <<>>
    /\ trace' = <<>>
    /\ exitCode' = NoExit
    /\ report' = NoReport
    /\ before' = [sets |-> sets, cardinfo |-> cardinfo,
                  tcgplayer |-> tcgplayer, attacks |-> attacks]
    /\ exits' = Append(exits, exitCode)
    /\ UNCHANGED viewVars
    /\ UNCHANGED <<faults, remote, storeVars>>

Next ==
    \/ FetchRequest
    \/ FetchFail
    \/ FetchPage
    \/ FetchDelay
    \/ FetchReturn
    \/ CheckCards
    \/ LoopNext
    \/ LoopEnd
    \/ PersistBegin
    \/ UpsertSet
    \/ InsertCard
    \/ InsertPrice
    \/ InsertAttacks
    \/ InsertAbilities
    \/ Returned
    \/ Caught
    \/ Pace
    \/ Pause
    \/ Rerun

Spec == Init /\ [][Next]_vars

(* ----------------------------- Testview.vue ----------------------------- *)

\* The bodies the identification service answers with: an object with or
\* without a name, or a JSON null.
Result(nm, conf, cid) ==
    [json |-> "object", card_name |-> nm, confidence |-> conf, card_id |-> cid]

NullResult ==
    [json |-> "null", card_name |-> "", confidence |-> Null, card_id |-> Null]

Results == {Result("Pikachu", 9, 7), Result("", 0, Null), NullResult}

\* result.card_name || 'Unknown card'
CardName(r) == IF r.card_name # "" THEN r.card_name ELSE "Unknown card"

\* result.confidence ?? null
Nullish(v) == IF v = Null THEN Null ELSE v

\* videoRef.value is the video element of the camera page
VideoRef == mounted /\ loggedIn /\ currentPage = "camera"

\* const attemptLogin = () => { ... }
AttemptLogin ==
    /\ mounted /\ ~loggedIn
    /\ \E filled \in BOOLEAN :
         IF filled
         THEN loginError' = FALSE /\ loggedIn' = TRUE
         ELSE loginError' = TRUE /\ UNCHANGED loggedIn
    /\ UNCHANGED <<mounted, currentPage, cameraActive, stream, srcObject, live,
                   acquired, pending, isLoading, scanError, message, scans,
                   stored, requests, calls>>
    /\ UNCHANGED importVars

\* @click="currentPage = 'camera'", @click="currentPage = 'scans'": the
\* video element belongs to the camera page (v-if)
SwitchPage ==
    /\ mounted /\ loggedIn
    /\ currentPage' = IF currentPage = "camera" THEN "scans" ELSE "camera"
    /\ srcObject' = NoStream
    /\ UNCHANGED <<mounted, loggedIn, loginError, cameraActive, stream, live,
                   acquired, pending, isLoading, scanError, message, scans,
                   stored, requests, calls>>
    /\ UNCHANGED importVars

\* const stopCamera = () => { ... }
StopCamera ==
    /\ live' = IF stream # NoStream THEN live \ {stream} ELSE live
    /\ cameraActive' = FALSE
    /\ message' = "Camera stopped."

\* const toggleCamera: stopCamera(), or startCamera() up to its await of
\* getUserMedia
ToggleCamera ==
    /\ VideoRef
    /\ IF cameraActive
       THEN /\ StopCamera
            /\ UNCHANGED pending
       ELSE /\ acquired + pending < MaxStarts
            /\ pending' = pending + 1
            /\ UNCHANGED <<live, cameraActive, message>>
    /\ UNCHANGED <<mounted, loggedIn, loginError, currentPage, stream,
                   srcObject, acquired, isLoading, scanError, scans, stored,
                   requests, calls>>
    /\ UNCHANGED importVars

\* startCamera after its await: the stream is kept, attached to the video
\* element and the camera is active; without a video element the
\* assignment throws into the catch
MediaGranted ==
    /\ pending > 0
    /\ pending' = pending - 1
    /\ acquired' = acquired + 1
    /\ stream' = acquired + 1
    /\ live' = live \cup {acquired + 1}
    /\ IF VideoRef
       THEN /\ srcObject' = acquired + 1
            /\ cameraActive' = TRUE
            /\ message' = "Camera is live."
       ELSE /\ message' = "Error accessing camera."
            /\ UNCHANGED <<srcObject, cameraActive>>
    /\ UNCHANGED <<mounted, loggedIn, loginError, currentPage, isLoading,
                   scanError, scans, stored, requests, calls>>
    /\ UNCHANGED importVars

\* getUserMedia rejects: catch (err)
MediaDenied ==
    /\ pending > 0
    /\ pending' = pending - 1
    /\ message' = "Error accessing camera."
    /\ UNCHANGED <<mounted, loggedIn, loginError, currentPage, cameraActive,
                   stream, srcObject, live, acquired, isLoading, scanError,
                   scans, stored, requests, calls>>
    /\ UNCHANGED importVars

\* onBeforeUnmount(() => stopCamera())
Unmount ==
    /\ mounted
    /\ mounted' = FALSE
    /\ StopCamera
    /\ srcObject' = NoStream
    /\ UNCHANGED <<loggedIn, loginError, currentPage, stream, acquired,
                   pending, isLoading, scanError, scans, stored, requests,
                   calls>>
    /\ UNCHANGED importVars

\* const capturePhoto, up to its first await
CapturePhoto ==
    /\ VideoRef
    /\ calls < MaxCaptures
    /\ calls' = calls + 1
    /\ IF ~cameraActive
       THEN UNCHANGED <<isLoading, scanError, message, requests>>
       ELSE /\ isLoading' = TRUE
            /\ scanError' = FALSE
            /\ message' = "Analyzing card..."
            /\ requests' = requests \cup
                           {[image |-> calls + 1, st |-> "fetch", ok |-> FALSE]}
    /\ UNCHANGED <<mounted, loggedIn, loginError, currentPage, cameraActive,
                   stream, srcObject, live, acquired, pending, scans, stored>>
    /\ UNCHANGED importVars

\* Failed without the assignment of scanError.
FailedSilently(t) ==
    /\ UNCHANGED scanError
    /\ message' = "Error while talking to Pokedex core."
    /\ isLoading' = FALSE
    /\ requests' = requests \ {t}

\* catch (err) { ... } finally { isLoading.value = false }
Failed(t) ==
    /\ scanError' = TRUE
    /\ message' = "Error while talking to Pokedex core."
    /\ isLoading' = FALSE
    /\ requests' = requests \ {t}

\* the request is answered: a network error, a status that is not ok, or a
\* status that is ok, after which the body is read
Respond ==
    /\ \E t \in requests :
         /\ t.st = "fetch"
         /\ \E answer \in {"error", "notOk", "ok"} :
              IF answer = "ok"
              THEN /\ requests' = (requests \ {t}) \cup {[t EXCEPT !.st = "json", !.ok = TRUE]}
                   /\ UNCHANGED <<scanError, message, isLoading>>
              ELSE Failed(t)
    /\ UNCHANGED <<mounted, loggedIn, loginError, currentPage, cameraActive,
                   stream, srcObject, live, acquired, pending, scans, stored,
                   calls>>
    /\ UNCHANGED importVars

\* await response.json() is answered: the body does not parse, or it is a
\* result: the scan is pushed and the list stored, unless reading a field of
\* a JSON null throws or localStorage refuses the item
ReadBody ==
    /\ \E t \in requests :
         /\ t.st = "json"
         /\ \/ /\ Failed(t)
               /\ UNCHANGED <<scans, stored>>
            \/ \E r \in Results : \E quota \in BOOLEAN :
                 IF r.json = "null"
                 THEN /\ Failed(t)
                      /\ UNCHANGED <<scans, stored>>
                 ELSE /\ scans' = Append(scans,
                             Scan(t.image, CardName(r), Nullish(r.confidence),
                                  Nullish(r.card_id)))
                      /\ IF quota
                         THEN /\ Failed(t)
                              /\ UNCHANGED stored
                         ELSE /\ stored' = Item(scans')
                              /\ message' = "Identified"
                              /\ isLoading' = FALSE
                              /\ requests' = requests \ {t}
                              /\ UNCHANGED scanError
    /\ UNCHANGED <<mounted, loggedIn, loginError, currentPage, cameraActive,
                   stream, srcObject, live, acquired, pending, calls>>
    /\ UNCHANGED importVars

\* const clearScans; the button is disabled while the list is empty
ClearScans ==
    /\ mounted /\ loggedIn /\ currentPage = "scans"
    /\ scans # <<>>
    /\ scans' = <<>>
    /\ stored' = NoItem
    /\ message' = "All Pokedex entries cleared."
    /\ UNCHANGED <<mounted, loggedIn, loginError, currentPage, cameraActive,
                   stream, srcObject, live, acquired, pending, isLoading,
                   scanError, requests, calls>>
    /\ UNCHANGED importVars

InitView ==
    /\ ImportStart(<<>>)
    /\ \E item \in {NoItem, Item(<<OldScan>>)} : ViewSetup(item)

NextView ==
    \/ AttemptLogin
    \/ SwitchPage
    \/ ToggleCamera
    \/ MediaGranted
    \/ MediaDenied
    \/ Unmount
    \/ CapturePhoto
    \/ Respond
    \/ ReadBody
    \/ ClearScans

SpecView == InitView /\ [][NextView]_vars


(* ------------------------------ properties ----------------------------- *)

Last(q) == q[Len(q)]

\* The page numbers requested by the run, in order.
RECURSIVE Requests(_)
Requests(t) ==
    IF t = <<>> THEN <<>>
    ELSE IF Head(t).ev = "request" THEN <<Head(t).n>> \o Requests(Tail(t))
    ELSE Requests(Tail(t))

\* The store calls of the run, in order.
StoreEvents == {"sets", "cardinfo", "tcgplayer", "attacks", "abilities"}
ChildEvents == {"tcgplayer", "attacks", "abilities"}

Happened(e) == \E k \in 1..Len(trace) : trace[k] = e
Logged(kind) == \E k \in 1..Len(log) : log[k].kind = kind

RECURSIVE Flatten(_)
Flatten(pages) ==
    IF pages = <<>> THEN <<>> ELSE Head(pages).list \o Flatten(Tail(pages))

\* C1: a page that carries a record list of exactly the page size is
\* followed by the inter-page delay and the request of the next page, and
\* nothing else; a page that carries a shorter list (an empty one included)
\* ends the loop, and once the loop has ended the run issues no request.
FullPageThenNextRequest ==
    /\ [][(pc = "awaitFetch" /\ pc' # "aborted" /\ remote'[page].present)
            => (IF Len(remote'[page].list) = PageSize
                THEN pc' = "delay" /\ hasMorePages' /\ page' = page + 1
                ELSE pc' = "fetch" /\ ~hasMorePages' /\ page' = page)]_vars
    /\ [][pc = "delay" => (pc' = "fetch" /\ hasMorePages' /\ page' = page)]_vars
    /\ [][(pc = "fetch" /\ hasMorePages)
            => (pc' = "awaitFetch"
                /\ trace' = Append(trace, Event("request", page, TRUE)))]_vars
    /\ [][(~hasMorePages /\ run' = run)
            => (~hasMorePages' /\ Requests(trace') = Requests(trace))]_vars

\* C1 witness: a full first page was followed by the request of page 2,
\* whose short page ended the loop.
FullThenShortFetched ==
    /\ pc = "fetched"
    /\ Requests(trace) = <<1, 2>>
    /\ remote[1].present /\ Len(remote[1].list) = PageSize
    /\ remote[2].present /\ Len(remote[2].list) < PageSize

\* The first page of the catalog that is not a full record list.
FirstShort == CHOOSE p \in 1..Len(remote) :
    /\ Len(remote[p].list) < PageSize
    /\ \A q \in 1..(p - 1) : Len(remote[q].list) = PageSize

ListCatalog == \A p \in 1..Len(remote) : remote[p].present

\* C2: when the catalog is k full pages followed by a short page of m
\* records, the fetcher returns after exactly the requests 1, 2, ..., k+1
\* and its result is the concatenation of these pages, k*P + m records.
FetchConcatenatesPages ==
    (pc = "fetched" /\ ListCatalog)
        => /\ Requests(trace) = [p \in 1..FirstShort |-> p]
           /\ allCards = Flatten(SubSeq(remote, 1, FirstShort))
           /\ Len(allCards) = (FirstShort - 1) * PageSize
                                + Len(remote[FirstShort].list)

\* C2 witness: a full page and a short page with a record were fetched.
TwoPagesConcatenated ==
    /\ pc = "fetched"
    /\ ListCatalog
    /\ FirstShort = 2
    /\ Len(allCards) = PageSize + 1
    /\ allCards[1] # allCards[PageSize + 1]

\* C3: a run in which a page request failed is in the aborted state with
\* exit status 1, has printed no summary and has made no call to the store.
FetchFailureAbortsBeforeWrites ==
    Logged("fetchError")
        => /\ pc = "aborted"
           /\ exitCode = 1
           /\ ~Logged("summary")
           /\ \A k \in 1..Len(trace) : trace[k].ev \notin StoreEvents
           /\ <<sets, cardinfo, tcgplayer, attacks>>
                = <<before.sets, before.cardinfo, before.tcgplayer,
                    before.attacks>>

\* C3 witness: the request of page 2 failed after a full page 1.
SecondPageFailed ==
    /\ Logged("fetchError")
    /\ Requests(trace) = <<1, 2>>
    /\ Len(allCards) = PageSize

\* C4 (as claimed): the run exits non-zero only after a failed page request.
NonZeroExitOnlyOnFetchFailure ==
    exitCode = 1 => Logged("fetchError")

\* C5 (as claimed): at the summary, successCount + errorCount is the number
\* of cards processed.
CountersSumToTotal ==
    report # NoReport => report.success + report.failed = report.total

\* The card of iteration n failed at its cardinfo insert.
InsertFailed(n) == Happened(Event("cardinfo", n, FALSE))
InsertSucceeded(n) == Happened(Event("cardinfo", n, TRUE))

\* C6: a card whose cardinfo insert failed is caught by the iteration:
\* errorCount grows by one, the failure is logged with the card's id and
\* name, nothing else is counted, the run does not exit, and the loop moves
\* on to the next card of the sequence.
InsertFailureIsIsolated ==
    /\ [][(pc = "insertCard" /\ trace' # trace /\ ~Last(trace').ok)
            => pc' = "caught"]_vars
    /\ [][(pc = "caught" /\ InsertFailed(i))
            => (/\ errorCount' = errorCount + 1
                /\ successCount' = successCount
                /\ log' = Append(log, Line("cardFail", card.id, card.name))
                /\ exitCode' = NoExit
                /\ pc' = "pace")]_vars
    /\ [][(pc = "pace" \/ pc = "pausing")
            => ((pc' = "pausing" /\ i' = i) \/ (pc' = "loop" /\ i' = i + 1))]_vars
    /\ [][(pc = "loop" /\ i < Len(allCards))
            => (pc' = "persist" /\ i' = i)]_vars

\* C6 witness: the card after a card whose insert failed is being persisted.
NextCardAfterFailedInsert ==
    /\ pc = "persist"
    /\ i > 0
    /\ InsertFailed(i - 1)
    /\ errorCount > 0

\* C7: every store call for a price, attack or ability row of a card comes
\* after the successful cardinfo insert of that card, and every row of the
\* pricing and attacks tables has the id of a cardinfo row.
ChildrenOnlyAfterCard ==
    /\ \A k \in 1..Len(trace) :
         trace[k].ev \in ChildEvents
            => \E j \in 1..(k - 1) : trace[j] = Event("cardinfo", trace[k].n, TRUE)
    /\ \A k \in 1..Len(tcgplayer) :
         \E r \in cardinfo : r.id = tcgplayer[k].card_id
    /\ \A k \in 1..Len(attacks) :
         \E r \in cardinfo : r.id = attacks[k].card_id

\* C7 witness: a card with a price, an attack and an ability failed at its
\* cardinfo insert and the run went on to the end.
CardWithChildrenFailed ==
    /\ pc = "done"
    /\ \E n \in 0..(Len(allCards) - 1) :
         /\ InsertFailed(n)
         /\ Len(allCards[n + 1].attacks) > 0
         /\ SelectPrice(allCards[n + 1]).res = "insert"

\* C8 (as claimed): every cardinfo row with a set id has its row in sets.
SetExistsForEveryCard ==
    \A r \in cardinfo : r.set_id # Null => \E t \in sets : t.id = r.set_id

\* C9 (as claimed): between two cards, successCount is the number of cards
\* of the run whose cardinfo insert succeeded.
SuccessIffCardInserted ==
    pc = "loop"
        => successCount
             = Cardinality({n \in 0..(Len(allCards) - 1) : InsertSucceeded(n)})

\* Every record of the catalog is a card with an id, and the store the run
\* found holds a cardinfo row of that id and the sets row of its expansion.
CatalogStored ==
    \A k \in 1..Len(allCards) :
        /\ allCards[k].json = "object"
        /\ allCards[k].id # NoId
        /\ \E r \in before.cardinfo : r.id = allCards[k].id
        /\ HasExpansion(allCards[k]) => SetRow(allCards[k]) \in before.sets

RerunLeavesStore ==
    /\ successCount = 0
    /\ errorCount = Len(allCards)
    /\ sets = before.sets
    /\ cardinfo = before.cardinfo
    /\ tcgplayer = before.tcgplayer
    /\ attacks = before.attacks

\* C10 (as claimed): a completed second run on the store left by a
\* completed first run inserts no card and leaves the four tables as they
\* were.
RerunFailsEveryCard ==
    (run = 2 /\ exits = <<0>> /\ pc = "done") => RerunLeavesStore

\* C10 (amended): the same, when every record of the catalog carries an id
\* and the first run left every card id and every set of the catalog in the
\* store.
RerunFailsEveryStoredCard ==
    (run = 2 /\ exits = <<0>> /\ pc = "done" /\ CatalogStored)
        => RerunLeavesStore

\* C10 witness: a second run over two stored cards, one with a set, ended.
RerunOverStoredCatalog ==
    /\ run = 2 /\ exits = <<0>> /\ pc = "done" /\ CatalogStored
    /\ Len(allCards) >= 2
    /\ sets # {}
    /\ errorCount = Len(allCards)

\* The number of lines of a kind in the log of the run.
CountLogged(kind) == Cardinality({k \in 1..Len(log) : log[k].kind = kind})

\* C11: a run whose fetch did not abort and that has ended, has ended in
\* Done, after the last card of the fetched sequence, with exactly one
\* summary that carries the five counters, the total being the length of
\* the fetched sequence, whatever that length.
EndedRunEmittedOneSummary ==
    (pc \in {"done", "aborted"} /\ ~Logged("fetchError"))
        => /\ pc = "done"
           /\ i = Len(allCards)
           /\ CountLogged("summary") = 1
           /\ report = Summary

\* A snapshot with a value that is not null among low, mid, high, market.
HasNonNullValue(p) ==
    p.json = "object"
    /\ (p.low # Null \/ p.mid # Null \/ p.high # Null \/ p.market # Null)

\* The variants of a card whose first snapshot has such a value.
Qualifying(c) ==
    IF c.json = "object" /\ c.variants.json = "list"
    THEN {k \in 1..Len(c.variants.list) :
            /\ Len(c.variants.list[k].prices) > 0
            /\ HasNonNullValue(c.variants.list[k].prices[1])}
    ELSE {}

FirstQualifying(c) == CHOOSE k \in Qualifying(c) : \A j \in Qualifying(c) : k <= j

\* The snapshot as a row of the pricing table.
SnapshotRow(c, p) ==
    [card_id |-> c.id, price_low |-> p.low, price_mid |-> p.mid,
     price_high |-> p.high, price_market |-> p.market]

\* C12: the price step of a card that does not throw writes no row when no
\* variant has a first snapshot with a non-null value, and otherwise makes
\* one insert, of the first snapshot of the first such variant.
PriceOfFirstQualifyingVariant ==
    [][(pc = "price" /\ pc' = "attacks")
         => IF Qualifying(card) = {}
            THEN trace' = trace /\ tcgplayer' = tcgplayer
            ELSE /\ Len(trace') = Len(trace) + 1
                 /\ Last(trace').ev = "tcgplayer"
                 /\ Last(trace').ok =>
                      tcgplayer' = Append(tcgplayer,
                          SnapshotRow(card,
                              card.variants.list[FirstQualifying(card)].prices[1]))]_vars

\* The cards of the run for which the price step made an insert.
ProducedPrice ==
    {n \in 0..(i - 1) : \E k \in 1..Len(trace) :
        trace[k].ev = "tcgplayer" /\ trace[k].n = n}

\* C13: the priced-card count of the summary is the number of cards of the
\* run for which the price step emitted a row.
PricedCountIsCardsWithPriceRow ==
    report # NoReport => report.priced = Cardinality(ProducedPrice)

\* The store calls of the run that failed, and the lines of the log that
\* report a failure of a store call.
FailedCalls(evs) ==
    {k \in 1..Len(trace) : trace[k].ev \in evs /\ ~trace[k].ok}
FailureLines(kinds) == {k \in 1..Len(log) : log[k].kind \in kinds}

\* C14: every failure of the run has left a trace: a fetch failure has
\* ended the run, each failed card insert is counted in errorCount once the
\* iteration has caught it, and each failed set upsert, price insert and
\* attack or ability insert has its line in the log.
EveryFailureCountedOrLogged ==
    /\ Logged("fetchError") => (pc = "aborted" /\ exitCode = 1)
    /\ pc \in {"pace", "pausing", "loop", "done"}
         => Cardinality(FailedCalls({"cardinfo"})) <= errorCount
    /\ Cardinality(FailedCalls({"sets"} \cup ChildEvents))
         <= Cardinality(FailureLines({"setError", "childWarning"}))

\* C15: the sets table never holds two rows of one id; a set upsert that
\* the store carries out leaves the row of the card's set under its id,
\* whatever the table held; and whatever the store answers to the upsert,
\* the card goes on to its cardinfo insert and errorCount stays as it was.
SetUpsertKeepsOneRowPerId ==
    /\ [](\A r1, r2 \in sets : r1.id = r2.id => r1 = r2)
    /\ [][(pc = "upsertSet" /\ Last(trace').ok)
            => (/\ SetRow(card) \in sets'
                /\ {r.id : r \in sets'} = {r.id : r \in sets} \cup {card.expansion.id}
                /\ \A r \in sets : r.id # card.expansion.id => r \in sets')]_vars
    /\ [][pc = "upsertSet"
            => (/\ pc' = "insertCard"
                /\ errorCount' = errorCount
                /\ log' \in {log, Append(log, Line("setError", card.id,
                                                     card.name))})]_vars

\* C15 witness: in a second run, two cards that name the same set
\* differently have both been upserted over the row the first run left, and
\* the table holds one row of that id.
SameSetUpsertedAgain ==
    /\ run = 2
    /\ \E n, m \in 0..i :
         /\ n < m
         /\ Happened(Event("sets", n, TRUE))
         /\ Happened(Event("sets", m, TRUE))
         /\ allCards[n + 1].expansion.id = allCards[m + 1].expansion.id
         /\ allCards[n + 1].expansion.name # allCards[m + 1].expansion.name
         /\ \E r \in before.sets : r.id = allCards[m + 1].expansion.id
         /\ Cardinality({r \in sets : r.id = allCards[m + 1].expansion.id}) = 1

\* C16: a response that carries a record list, under data, under cards or
\* as the body itself, has that list appended to allCards (nothing for an
\* empty list), and the loop ends if the list is empty or shorter than the
\* page size and goes on to the next page otherwise; the envelope plays no
\* part.
EveryEnvelopeYieldsTheList ==
    [][(pc = "awaitFetch" /\ data' \in {"data", "cards", "root"})
         => LET l == remote'[page].list IN
            /\ remote'[page].present
            /\ allCards' = allCards \o l
            /\ IF Len(l) < PageSize
               THEN pc' = "fetch" /\ ~hasMorePages' /\ page' = page
               ELSE pc' = "delay" /\ hasMorePages' /\ page' = page + 1]_vars

\* C16 witness: a full page and then a short one have been read, the short
\* one from a body that is itself the list.
ShortPageReadFromRootBody ==
    /\ pc = "fetch" /\ data = "root"
    /\ page = 2 /\ ~hasMorePages
    /\ Len(allCards) = PageSize + 1
    /\ allCards = Flatten(remote)

\* The rows of the attacks table of a card id.
RowsOf(cid) == SelectSeq(attacks, LAMBDA r : r.card_id = cid)

\* The cards of the run whose iteration is over and whose cardinfo insert
\* succeeded.
Inserted == {n \in 0..(i - 1) : InsertSucceeded(n)}

\* C17: of the cards whose cardinfo insert succeeded, those without attacks
\* and abilities are all counted in successCount, and each has in the
\* attacks table one row per attack, tagged <<"attack">>, followed by one
\* row per ability, tagged <<"ability", type or "Pokemon Power">>, and no
\* other row.
AttackRowsPerInsertedCard ==
    /\ Cardinality({n \in Inserted : /\ Len(allCards[n + 1].attacks) = 0
                                     /\ Len(allCards[n + 1].abilities) = 0})
         <= successCount
    /\ \A n \in Inserted :
         LET c == allCards[n + 1] IN
         /\ Len(RowsOf(c.id)) = Len(c.attacks) + Len(c.abilities)
         /\ \A k \in 1..Len(RowsOf(c.id)) :
              RowsOf(c.id)[k].type =
                 IF k <= Len(c.attacks) THEN <<"attack">>
                 ELSE <<"ability",
                        IF c.abilities[k - Len(c.attacks)].type # ""
                        THEN c.abilities[k - Len(c.attacks)].type
                        ELSE "Pokemon Power">>

\* The calls of an event made for a card of the run.
CallsFor(e, n) == {k \in 1..Len(trace) : trace[k].ev = e /\ trace[k].n = n}

\* The place of a store call in the pass: the card, then the table.
StepOf(e) ==
    5 * e.n + (CASE e.ev = "sets" -> 0 [] e.ev = "cardinfo" -> 1
                 [] e.ev = "tcgplayer" -> 2 [] e.ev = "attacks" -> 3
                 [] e.ev = "abilities" -> 4)

\* C18: page 1 is requested at the start of the run and at no other time;
\* a request or a delay follows nothing but a request or a delay, so that
\* the fetcher is over before the first store call, and a request that
\* follows a request asks for a later page; a store call is made while no
\* page is being fetched, for the current card of the loop, and comes
\* later in the pass than the store call before it: the cards go in the
\* order of the fetched sequence and the tables of a card in their order,
\* no call made twice; and a run that printed its summary has made one
\* cardinfo insert for every card of the sequence.
OneSequentialPass ==
    /\ [][(Len(trace') = Len(trace) + 1 /\ Last(trace').ev = "request"
            /\ Last(trace').n = 1) => trace = <<>>]_vars
    /\ [][(Len(trace') = Len(trace) + 1 /\ trace # <<>>)
            => (/\ Last(trace').ev \in {"request", "delay"}
                     => Last(trace).ev \in {"request", "delay"}
                /\ (Last(trace).ev = "request" /\ Last(trace').ev = "request")
                     => Last(trace).n < Last(trace').n
                /\ (Last(trace).ev \in StoreEvents
                      /\ Last(trace').ev \in StoreEvents)
                     => StepOf(Last(trace)) < StepOf(Last(trace')))]_vars
    /\ [][(Len(trace') = Len(trace) + 1 /\ Last(trace').ev \in StoreEvents)
            => (/\ pc \notin {"fetch", "awaitFetch", "delay", "fetched"}
                /\ Last(trace').n = i
                /\ i < Len(allCards)
                /\ allCards' = allCards)]_vars
    /\ [](report # NoReport
            => \A n \in 0..(Len(allCards) - 1) :
                 Cardinality(CallsFor("cardinfo", n)) = 1)

\* C18 witness: a run over two pages and three cards has printed its
\* summary.
ThreeCardsOfTwoPagesPersisted ==
    /\ pc = "done" /\ report # NoReport
    /\ Requests(trace) = <<1, 2>>
    /\ Len(allCards) = PageSize + 1
    /\ \A n \in 0..PageSize : Cardinality(CallsFor("cardinfo", n)) = 1

\* The numbers of cards that had been processed when the run paused.
PausedAfter == {trace[k].n + 1 : k \in {j \in 1..Len(trace) : trace[j].ev = "pause"}}

\* C19 (as claimed): between two iterations, the pauses taken so far are
\* one after each card whose number is a multiple of the pacing interval.
PauseAfterEveryNthCard ==
    pc = "loop" =>
        /\ PausedAfter = {m \in 1..i : m % PaceEvery = 0}
        /\ \A n \in 0..i : Cardinality(CallsFor("pause", n)) <= 1

\* C19 (amended): between two iterations, the pauses taken so far are one
\* after each card whose zero-based index is a positive multiple of the
\* pacing interval, that is after the cards number N + 1, 2N + 1, ...
PauseAfterEveryNthIndex ==
    pc = "loop" =>
        /\ PausedAfter = {m \in 1..i : (m - 1) % PaceEvery = 0 /\ m > 1}
        /\ \A n \in 0..i : Cardinality(CallsFor("pause", n)) <= 1

\* C19 witness: the run has paused after the card of index N and gone on.
PausedAfterIndexN ==
    /\ pc = "loop" /\ i = PaceEvery + 1
    /\ Happened(Event("pause", PaceEvery, TRUE))

\* The page requests and inter-page delays of the run, in order.
FetchEvents == SelectSeq(trace, LAMBDA e : e.ev \in {"request", "delay"})

\* C20: the requests and delays of a run alternate, starting with a
\* request, each request asking for the page after the one before; and when
\* the loop of the fetcher has ended, the last of them is a request.
OneDelayBetweenRequests ==
    LET fe == FetchEvents IN
    /\ \A k \in 1..Len(fe) :
         /\ fe[k].ev = IF k % 2 = 1 THEN "request" ELSE "delay"
         /\ k > 2 /\ k % 2 = 1 => fe[k].n = fe[k - 2].n + 1
    /\ (pc \notin {"fetch", "awaitFetch", "delay"} \/ (pc = "fetch" /\ ~hasMorePages))
         => (fe # <<>> /\ Last(fe).ev = "request")

\* C20 witness: the fetcher has returned after request 1, a delay and
\* request 2.
ReturnedAfterOneDelay ==
    /\ pc = "fetched"
    /\ [k \in 1..Len(FetchEvents) |-> FetchEvents[k].ev]
         = <<"request", "delay", "request">>
    /\ Len(allCards) > PageSize

\* C21: a response that carries no record, be it an empty list under data,
\* under cards or as the body, or a body object without a record list, ends
\* the loop of the fetcher: no further page is requested and nothing is
\* added to the result.
FetchEndsOnPageWithoutRecords ==
    [][(pc = "awaitFetch" /\ data' \in {"data", "cards", "root", "bare"}
          /\ Len(remote'[page].list) = 0)
         => (pc' = "fetch" /\ ~hasMorePages' /\ page' = page
             /\ allCards' = allCards)]_vars

\* C22: insertCardToSupabase changes no counter; a card for which it threw
\* adds one to errorCount and leaves successCount, setsFound and pricesFound
\* as they were; pricesFound and the size of setsFound never exceed
\* successCount; and the set ids in setsFound are ids of rows of the sets
\* table.
FailedCardChangesOnlyErrorCount ==
    /\ [][(pc = "persist" \/ pc = "upsertSet" \/ pc = "insertCard"
            \/ pc = "price" \/ pc = "attacks" \/ pc = "abilities")
            => countVars' = countVars]_vars
    /\ [][pc = "caught"
            => (/\ errorCount' = errorCount + 1
                /\ successCount' = successCount
                /\ setsFound' = setsFound
                /\ pricesFound' = pricesFound)]_vars
    /\ [](pricesFound <= successCount /\ Cardinality(setsFound) <= successCount)
    /\ [](setsFound \subseteq {r.id : r \in sets})

(* ----------------------- properties of the view ------------------------- *)

\* C23: the scans list grows only by the entry of a request whose answer
\* had a success status and whose body is being read, and the stored scans
\* are set only to the list so grown (or removed by clearScans); a request
\* that ends before its body is read, on a network error or a status that
\* is not ok, leaves the scans list and the stored scans as they were and
\* sets scanError; and a call of capturePhoto while the camera is inactive
\* changes nothing.
ScanStoredOnlyOnSuccess ==
    /\ [][scans' # scans
            => \/ scans' = <<>> /\ stored' = NoItem
               \/ \E t \in requests :
                    /\ t.st = "json" /\ t.ok /\ t \notin requests'
                    /\ Len(scans') = Len(scans) + 1
                    /\ SubSeq(scans', 1, Len(scans)) = scans
                    /\ scans'[Len(scans')].image = t.image]_vars
    /\ [][stored' # stored
            => (stored' = NoItem \/ (scans' # scans /\ stored' = Item(scans')))]_vars
    /\ [][(\E t \in requests : t.st = "fetch" /\ \A u \in requests' : u.image # t.image)
            => (scans' = scans /\ stored' = stored /\ scanError')]_vars
    /\ [][(calls' = calls + 1 /\ ~cameraActive)
            => UNCHANGED <<mounted, loggedIn, loginError, currentPage,
                           cameraActive, stream, srcObject, live, acquired,
                           pending, isLoading, scanError, message, scans,
                           stored, requests>>]_vars

\* C23 witness: of two captures, the first was identified, appended and
\* stored, and the second failed.
OneScanStoredOneFailed ==
    /\ calls = 2 /\ requests = {}
    /\ Len(scans) = 1 /\ scans[1].image = 1
    /\ stored = Item(scans)
    /\ scanError

\* C24: isLoading is true exactly while a request of capturePhoto awaits an
\* answer.
LoadingIffRequestInFlight == isLoading <=> requests # {}

\* C25: at most one acquired stream is live; cameraActive is true exactly
\* when a live stream is attached to the video element; and a step that
\* stops the camera, from the button or at unmount, leaves no acquired
\* stream live.
OneLiveStreamWhileActive ==
    /\ [](Cardinality(live) <= 1)
    /\ [](cameraActive <=> (srcObject # NoStream /\ srcObject \in live))
    /\ [][((VideoRef /\ cameraActive /\ ~cameraActive') \/ (mounted /\ ~mounted'))
            => live' = {}]_vars

====
